---- MODULE Spec2Model ----
(***************************************************************************)
(* Model of pr_agent/git_providers/git_provider.py: the FilePatchInfo      *)
(* dataclass, the two description helpers of GitProvider and the free      *)
(* function get_main_pr_language.                                          *)
(*                                                                         *)
(* A Python str is a sequence of one-character strings.  An optional str   *)
(* (str or None) and the outcome of a call (a str, None, or a raised       *)
(* exception) are records [tag, val].                                      *)
(***************************************************************************)
EXTENDS Integers, Sequences, FiniteSets

VARIABLES
    pc,                     \* "idle": no call in progress; "done": a call has returned or raised
    op,                     \* the operation that was called
    result,                 \* what the call returned (or that it raised)
    pr_description_full,    \* outcome of the abstract get_pr_description_full()
    full,                   \* get_pr_description's keyword argument
    max_tokens,             \* get_settings().get("CONFIG.MAX_DESCRIPTION_TOKENS", None)
    description,            \* get_pr_description's local
    clip_calls,             \* argument lists of the calls made to clip_tokens
    languages,              \* get_main_pr_language's first argument
    files,                  \* get_main_pr_language's second argument
    top_language,           \* locals of get_main_pr_language
    extension_list,
    most_common_extension,
    caught,                 \* the except clause of get_main_pr_language ran
    constructed,            \* FilePatchInfo values constructed during the call
    defaulted               \* FilePatchInfo was called without edit_type and old_filename

vars == <<pc, op, result, pr_description_full, full, max_tokens, description, clip_calls,
          languages, files, top_language, extension_list, most_common_extension, caught,
          constructed, defaulted>>

-----------------------------------------------------------------------------
(* Bounds of the model *)

MaxSegs == 4        \* a raw description is made of at most MaxSegs segments
MaxTokens == 2      \* largest configured token budget
MaxFiles == 3       \* longest files list

-----------------------------------------------------------------------------
(* Values *)

Str(s) == [tag |-> "str", val |-> s]
None == [tag |-> "none", val |-> <<>>]
Raised == [tag |-> "raise", val |-> <<>>]
Unset == [tag |-> "unset", val |-> <<>>]

Range(s) == {s[i] : i \in DOMAIN s}

RECURSIVE Concat(_)
Concat(ss) == IF ss = <<>> THEN <<>> ELSE Head(ss) \o Concat(Tail(ss))

SeqsUpTo(S, n) == UNION {[1..k -> S] : k \in 0..n}

-----------------------------------------------------------------------------
(* Python str methods *)

Whitespace == {" ", "\n", "\t", "\r", "\f"}

RECURSIVE lstrip(_)
lstrip(s) == IF s # <<>> /\ Head(s) \in Whitespace THEN lstrip(Tail(s)) ELSE s

RECURSIVE rstrip(_)
rstrip(s) ==
    IF s # <<>> /\ s[Len(s)] \in Whitespace THEN rstrip(SubSeq(s, 1, Len(s) - 1)) ELSE s

strip(s) == rstrip(lstrip(s))

startswith(s, prefix) ==
    Len(s) >= Len(prefix) /\ SubSeq(s, 1, Len(prefix)) = prefix

\* str.find, 1-based: the lowest index where sub occurs in s, 0 when it does not occur
RECURSIVE findFrom(_, _, _)
findFrom(s, sub, i) ==
    IF i + Len(sub) - 1 > Len(s) THEN 0
    ELSE IF SubSeq(s, i, i + Len(sub) - 1) = sub THEN i
    ELSE findFrom(s, sub, i + 1)

find(s, sub) == findFrom(s, sub, 1)

\* sub in s
contains(s, sub) == find(s, sub) # 0

\* s.split(sep, 1): at most one split, at the first occurrence of sep
split1(s, sep) ==
    LET i == find(s, sep)
    IN  IF i = 0 THEN <<s>>
        ELSE <<SubSeq(s, 1, i - 1), SubSeq(s, i + Len(sep), Len(s))>>

\* s.rsplit(sep) with a one-character sep: split at every occurrence
RECURSIVE rsplit(_, _)
rsplit(s, sep) ==
    IF \A i \in DOMAIN s : s[i] # sep THEN <<s>>
    ELSE LET i == CHOOSE k \in DOMAIN s :
                      s[k] = sep /\ \A j \in DOMAIN s : j > k => s[j] # sep
         IN  Append(rsplit(SubSeq(s, 1, i - 1), sep), SubSeq(s, i + 1, Len(s)))

UpperCase == <<"A", "B", "C", "D", "E", "F", "G", "H", "I", "J", "K", "L", "M",
               "N", "O", "P", "Q", "R", "S", "T", "U", "V", "W", "X", "Y", "Z">>
LowerCase == <<"a", "b", "c", "d", "e", "f", "g", "h", "i", "j", "k", "l", "m",
               "n", "o", "p", "q", "r", "s", "t", "u", "v", "w", "x", "y", "z">>

lowerChar(c) ==
    IF \E i \in DOMAIN UpperCase : UpperCase[i] = c
    THEN LowerCase[CHOOSE i \in DOMAIN UpperCase : UpperCase[i] = c]
    ELSE c

lower(s) == [i \in DOMAIN s |-> lowerChar(s[i])]

\* list.count
count(list, x) == Cardinality({i \in DOMAIN list : list[i] = x})

-----------------------------------------------------------------------------
(* GitProvider.get_user_description and GitProvider.get_pr_description *)

PR_TYPE_MARKER == <<"#", "#", " ", "P", "R", " ", "T", "y", "p", "e">>
USER_DESCRIPTION_HEADER ==
    <<"#", "#", " ", "U", "s", "e", "r", " ", "D", "e", "s", "c", "r", "i", "p", "t",
      "i", "o", "n", ":">>

\* (x or ""): a falsy x, None or the empty str, gives ""
or_empty(x) == IF x.tag = "none" \/ x.val = <<>> THEN <<>> ELSE x.val

\* Mutants of get_user_description: the marker test of line 106 left out; the
\* split of line 113 made at the last header; line 111 returning the description
get_user_description_always_extract(x) ==
    LET d == strip(or_empty(x))
    IN  IF ~contains(d, USER_DESCRIPTION_HEADER) THEN d
        ELSE strip(split1(d, USER_DESCRIPTION_HEADER)[2])

RECURSIVE after_last(_, _)
after_last(s, sep) ==
    LET rest == split1(s, sep)
    IN  IF Len(rest) = 1 THEN s ELSE after_last(rest[2], sep)

get_user_description_last_header(x) ==
    LET d == strip(or_empty(x))
    IN  IF ~startswith(d, PR_TYPE_MARKER) THEN d
        ELSE IF ~contains(d, USER_DESCRIPTION_HEADER) THEN <<>>
        ELSE strip(after_last(d, USER_DESCRIPTION_HEADER))

get_user_description_keep_generated(x) ==
    LET d == strip(or_empty(x))
    IN  IF ~startswith(d, PR_TYPE_MARKER) THEN d
        ELSE IF ~contains(d, USER_DESCRIPTION_HEADER) THEN d
        ELSE strip(split1(d, USER_DESCRIPTION_HEADER)[2])

\* The body of get_user_description once get_pr_description_full() has returned x
get_user_description(x) ==
    LET d == strip(or_empty(x))
    IN  IF ~startswith(d, PR_TYPE_MARKER) THEN d
        ELSE IF ~contains(d, USER_DESCRIPTION_HEADER) THEN <<>>
        ELSE strip(split1(d, USER_DESCRIPTION_HEADER)[2])

\* pr_agent.algo.pr_processing.clip_tokens: keeps at most n tokens of the text
\* (one token per character); an absent text is returned as it is
clip_tokens(text, n) ==
    IF text.tag # "str" THEN text
    ELSE Str(SubSeq(text.val, 1, IF n < Len(text.val) THEN n ELSE Len(text.val)))

\* max_tokens is [set, n]: set is FALSE for None
NoTokens == [set |-> FALSE, n |-> 0]
truthy(mt) == mt.set /\ mt.n # 0

\* Mutant of get_pr_description: line 99 as "if max_tokens is not None"
get_pr_description_clip_when_set(x, f, mt) ==
    LET d == IF f THEN x ELSE Str(get_user_description(x))
    IN  IF mt.set
        THEN [ret |-> clip_tokens(d, mt.n), description |-> d,
              clip_calls |-> <<[text |-> d, n |-> mt.n]>>]
        ELSE [ret |-> d, description |-> d, clip_calls |-> <<>>]

\* The body of get_pr_description once get_pr_description_full() has returned x
\* (lines 97-101): the value returned, the local description and the calls of
\* clip_tokens
get_pr_description(x, f, mt) ==
    LET d == IF f THEN x ELSE Str(get_user_description(x))
    IN  IF truthy(mt)
        THEN [ret |-> clip_tokens(d, mt.n), description |-> d,
              clip_calls |-> <<[text |-> d, n |-> mt.n]>>]
        ELSE [ret |-> d, description |-> d, clip_calls |-> <<>>]

-----------------------------------------------------------------------------
(* FilePatchInfo *)

EDIT_TYPE == {"ADDED", "DELETED", "MODIFIED", "RENAMED"}

\* the dataclass's generated __init__: it stores its arguments and checks nothing
FilePatchInfo(base_file, head_file, patch, filename, tokens, edit_type, old_filename) ==
    [base_file |-> base_file, head_file |-> head_file, patch |-> patch,
     filename |-> filename, tokens |-> tokens, edit_type |-> edit_type,
     old_filename |-> old_filename]

DEFAULT_TOKENS == -1
DEFAULT_EDIT_TYPE == "MODIFIED"
DEFAULT_OLD_FILENAME == None

\* Mutant of FilePatchInfoDefaults: line 25 with another default
FilePatchInfoDefaults_renamed(base_file, head_file, patch, filename) ==
    FilePatchInfo(base_file, head_file, patch, filename,
                  DEFAULT_TOKENS, "RENAMED", DEFAULT_OLD_FILENAME)

\* FilePatchInfo(base_file, head_file, patch, filename): the other fields default
FilePatchInfoDefaults(base_file, head_file, patch, filename) ==
    FilePatchInfo(base_file, head_file, patch, filename,
                  DEFAULT_TOKENS, DEFAULT_EDIT_TYPE, DEFAULT_OLD_FILENAME)

-----------------------------------------------------------------------------
(* get_main_pr_language *)

\* the fixed table of lines 164-178: <<extension, language>>
LanguageTable ==
    { <<<<"p", "y">>, <<"p", "y", "t", "h", "o", "n">>>>,
      <<<<"j", "s">>, <<"j", "a", "v", "a", "s", "c", "r", "i", "p", "t">>>>,
      <<<<"t", "s">>, <<"t", "y", "p", "e", "s", "c", "r", "i", "p", "t">>>>,
      <<<<"g", "o">>, <<"g", "o">>>>,
      <<<<"j", "a", "v", "a">>, <<"j", "a", "v", "a">>>>,
      <<<<"c">>, <<"c">>>>,
      <<<<"c", "p", "p">>, <<"c", "+", "+">>>>,
      <<<<"c", "s">>, <<"c", "#">>>>,
      <<<<"s", "w", "i", "f", "t">>, <<"s", "w", "i", "f", "t">>>>,
      <<<<"p", "h", "p">>, <<"p", "h", "p">>>>,
      <<<<"r", "b">>, <<"r", "u", "b", "y">>>>,
      <<<<"r", "s">>, <<"r", "u", "s", "t">>>>,
      <<<<"s", "c", "a", "l", "a">>, <<"s", "c", "a", "l", "a">>>>,
      <<<<"k", "t">>, <<"k", "o", "t", "l", "i", "n">>>>,
      <<<<"p", "l">>, <<"p", "e", "r", "l">>>> }

\* Mutant of matches: line 180 made unconditional
matches_any(ext, top) == TRUE

\* the condition of lines 164-179
matches(ext, top) == <<ext, top>> \in LanguageTable \/ ext = top

\* languages is None or a dict: [tag, items], items the dict's (key, value) pairs
\* in iteration order.  A value is [cmp, n]: a number n, or (cmp FALSE) a value
\* such as None that > cannot compare.
NoLanguages == [tag |-> "none", items |-> <<>>]
Dict(items) == [tag |-> "dict", items |-> items]
Weight(n) == [cmp |-> TRUE, n |-> n]
NoWeight == [cmp |-> FALSE, n |-> 0]

\* files is None or a list: [tag, items].  An entry is a str (kind "str",
\* filename the str itself), an object with a filename attribute (kind "obj",
\* filename its value, a str or None) or any other object (kind "other").
NoFiles == [tag |-> "none", items |-> <<>>]
List(items) == [tag |-> "list", items |-> items]
Entry(kind, filename) == [kind |-> kind, filename |-> filename]

\* not x, for None and for an empty container
falsy(x) == x.tag = "none" \/ x.items = <<>>

\* max(languages, key=languages.get) raises TypeError as soon as two values
\* are compared and > is not defined for them
max_raises(items) == Len(items) >= 2 /\ \E i \in DOMAIN items : ~items[i].weight.cmp

\* max(languages, key=languages.get): the first key, in iteration order, whose
\* value no other value exceeds
max_key(items) ==
    LET i == CHOOSE k \in DOMAIN items :
                 /\ \A j \in DOMAIN items : items[j].weight.n <= items[k].weight.n
                 /\ \A j \in 1..(k - 1) : items[j].weight.n < items[k].weight.n
    IN  items[i].key

\* line 151
compute_top_language(items) == lower(max_key(items))

\* lines 156-158 raise AttributeError for an entry that is no str and has no
\* filename, and for a filename that is None
entry_raises(e) == e.kind = "other" \/ (e.kind = "obj" /\ e.filename.tag # "str")

\* line 157: the minimal FilePatchInfo of a bare filename
minimal_file(filename) == FilePatchInfoDefaults(None, None, None, Str(filename))

\* Mutant of extension: line 158 as split('.')[1], the text between the first
\* two dots
extension_first_dot(filename) ==
    LET parts == rsplit(filename, ".") IN parts[IF Len(parts) > 1 THEN 2 ELSE 1]

\* line 158: file.filename.rsplit('.')[-1]
extension(filename) ==
    LET parts == rsplit(filename, ".") IN parts[Len(parts)]

\* the entries the loop of lines 155-158 goes through: all of them, or those up
\* to and including the first that raises
looped(items) ==
    IF \E i \in DOMAIN items : entry_raises(items[i])
    THEN SubSeq(items, 1, CHOOSE i \in DOMAIN items :
                              /\ entry_raises(items[i])
                              /\ \A j \in 1..(i - 1) : ~entry_raises(items[j]))
    ELSE items

\* the FilePatchInfo values line 157 constructs
RECURSIVE minimal_files(_)
minimal_files(items) ==
    IF items = <<>> THEN <<>>
    ELSE IF Head(items).kind = "str"
         THEN <<minimal_file(Head(items).filename.val)>> \o minimal_files(Tail(items))
         ELSE minimal_files(Tail(items))

\* extension_list after the loop, when no entry raises
extensions(items) == [i \in DOMAIN items |-> extension(items[i].filename.val)]

\* line 161: max(set(extension_list), key=extension_list.count) returns the first
\* extension of maximal count in the iteration order of the set, which for a set
\* of str varies from run to run: any extension of maximal count
most_common(list) ==
    {x \in Range(list) : \A y \in Range(list) : count(list, y) <= count(list, x)}

\* whether the call gets to line 161
reaches_most_common(l, f) ==
    /\ ~falsy(l) /\ ~falsy(f)
    /\ ~max_raises(l.items)
    /\ \A i \in DOMAIN f.items : ~entry_raises(f.items[i])

\* the outcomes line 161 can have ("" stands in when the line is not reached)
picks(l, f) ==
    IF reaches_most_common(l, f) THEN most_common(extensions(f.items)) ELSE {<<>>}

Locals(ret, top, exts, mce, exc, built) ==
    [ret |-> ret, top_language |-> top, extension_list |-> exts,
     most_common_extension |-> mce, caught |-> exc, constructed |-> built]

\* Mutants of get_main_pr_language: lines 146-148 left out, so that line 161
\* raises ValueError for an empty files; and no try, so that what raises
\* propagates
get_main_pr_language_no_files_check(l, f, pick) ==
    IF falsy(l) THEN Locals(Str(<<>>), Unset, <<>>, Unset, FALSE, <<>>)
    ELSE IF max_raises(l.items) THEN Locals(Str(<<>>), Unset, <<>>, Unset, TRUE, <<>>)
    ELSE IF falsy(f)
         THEN Locals(Str(<<>>), Str(compute_top_language(l.items)), <<>>, Unset, TRUE, <<>>)
    ELSE LET top == compute_top_language(l.items)
             seen == looped(f.items)
         IN  IF entry_raises(seen[Len(seen)])
             THEN Locals(Str(<<>>), Str(top), extensions(SubSeq(seen, 1, Len(seen) - 1)),
                         Unset, TRUE, minimal_files(seen))
             ELSE Locals(Str(IF matches(pick, top) THEN top ELSE <<>>), Str(top),
                         extensions(seen), Str(pick), FALSE, minimal_files(seen))

get_main_pr_language_no_try(l, f, pick) ==
    IF falsy(l) THEN Locals(Str(<<>>), Unset, <<>>, Unset, FALSE, <<>>)
    ELSE IF falsy(f) THEN Locals(Str(<<>>), Unset, <<>>, Unset, FALSE, <<>>)
    ELSE IF max_raises(l.items) THEN Locals(Raised, Unset, <<>>, Unset, FALSE, <<>>)
    ELSE LET top == compute_top_language(l.items)
             seen == looped(f.items)
         IN  IF entry_raises(seen[Len(seen)])
             THEN Locals(Raised, Str(top), extensions(SubSeq(seen, 1, Len(seen) - 1)),
                         Unset, FALSE, minimal_files(seen))
             ELSE Locals(Str(IF matches(pick, top) THEN top ELSE <<>>), Str(top),
                         extensions(seen), Str(pick), FALSE, minimal_files(seen))

\* get_main_pr_language(languages, files), with pick the outcome of line 161:
\* the outcome of the call and the locals at its end.  Everything that raises is
\* inside the try of lines 150-184, whose handler logs and goes on to line 186.
get_main_pr_language(l, f, pick) ==
    IF falsy(l) THEN Locals(Str(<<>>), Unset, <<>>, Unset, FALSE, <<>>)
    ELSE IF falsy(f) THEN Locals(Str(<<>>), Unset, <<>>, Unset, FALSE, <<>>)
    ELSE IF max_raises(l.items) THEN Locals(Str(<<>>), Unset, <<>>, Unset, TRUE, <<>>)
    ELSE LET top == compute_top_language(l.items)
             seen == looped(f.items)
         IN  IF entry_raises(seen[Len(seen)])
             THEN Locals(Str(<<>>), Str(top), extensions(SubSeq(seen, 1, Len(seen) - 1)),
                         Unset, TRUE, minimal_files(seen))
             ELSE Locals(Str(IF matches(pick, top) THEN top ELSE <<>>), Str(top),
                         extensions(seen), Str(pick), FALSE, minimal_files(seen))

-----------------------------------------------------------------------------
(* Inputs *)

\* the pieces raw descriptions are made of
Segments == {<<" ">>, <<"\n">>, <<"h">>, PR_TYPE_MARKER, USER_DESCRIPTION_HEADER}

RawDescriptions == {Concat(ss) : ss \in SeqsUpTo(Segments, MaxSegs)}

\* what the provider's get_pr_description_full() can do
Outcomes == {None, Raised} \cup {Str(t) : t \in RawDescriptions}

TokenBudgets == {NoTokens} \cup {[set |-> TRUE, n |-> n] : n \in 0..MaxTokens}

LanguageNames == {<<"P", "y", "t", "h", "o", "n">>, <<"R">>}
Weights == {NoWeight, Weight(1), Weight(2)}

Items == [key : LanguageNames, weight : Weights]

\* None, and every dict over LanguageNames in every iteration order
LanguageInputs ==
    {NoLanguages} \cup
    {Dict(items) : items \in
        {q \in SeqsUpTo(Items, Cardinality(LanguageNames)) :
            \A i, j \in DOMAIN q : i # j => q[i].key # q[j].key}}

FileNames == {<<"a", ".", "p", "y">>, <<"b", ".", "r">>, <<"m", "k">>,
              <<"x", ".", "r", ".", "p", "y">>}

Entries ==
    {Entry("str", Str(n)) : n \in FileNames}
    \cup {Entry("obj", Str(<<"c", ".", "p", "y">>)), Entry("obj", None),
          Entry("other", None)}

FileInputs == {NoFiles} \cup {List(items) : items \in SeqsUpTo(Entries, MaxFiles)}

OptionalTexts == {None, Str(<<"h">>)}
OptionalNames == {None} \cup {Str(n) : n \in {<<"a", ".", "p", "y">>, <<"b", ".", "r">>}}
TokenCounts == DEFAULT_TOKENS..MaxTokens

-----------------------------------------------------------------------------
(* The state machine: a caller makes one call at a time *)

Init ==
    /\ pc = "idle"
    /\ op = "none"
    /\ result = Unset
    /\ pr_description_full = Unset
    /\ full = TRUE
    /\ max_tokens = NoTokens
    /\ description = Unset
    /\ clip_calls = <<>>
    /\ languages = NoLanguages
    /\ files = NoFiles
    /\ top_language = Unset
    /\ extension_list = <<>>
    /\ most_common_extension = Unset
    /\ caught = FALSE
    /\ constructed = <<>>
    /\ defaulted = FALSE

descVars == <<pr_description_full, full, max_tokens, description, clip_calls>>
langVars == <<languages, files, top_language, extension_list, most_common_extension, caught>>

\* Mutant of Call_get_user_description: line 104 inside a try whose handler
\* returns ""
Call_get_user_description_swallow ==
    /\ pc = "idle"
    /\ \E x \in Outcomes :
        /\ pr_description_full' = x
        /\ result' = IF x.tag = "raise" THEN Str(<<>>) ELSE Str(get_user_description(x))
    /\ op' = "get_user_description"
    /\ pc' = "done"
    /\ UNCHANGED <<full, max_tokens, description, clip_calls, langVars, constructed, defaulted>>

\* self.get_user_description(): an exception of get_pr_description_full (line 104)
\* propagates, nothing catches it
Call_get_user_description ==
    /\ pc = "idle"
    /\ \E x \in Outcomes :
        /\ pr_description_full' = x
        /\ result' = IF x.tag = "raise" THEN Raised ELSE Str(get_user_description(x))
    /\ op' = "get_user_description"
    /\ pc' = "done"
    /\ UNCHANGED <<full, max_tokens, description, clip_calls, langVars, constructed, defaulted>>

\* self.get_pr_description(full=f): an exception of get_pr_description_full (line 98,
\* or line 104 through get_user_description) propagates
Call_get_pr_description ==
    /\ pc = "idle"
    /\ \E x \in Outcomes, f \in BOOLEAN, mt \in TokenBudgets :
        /\ pr_description_full' = x
        /\ full' = f
        /\ max_tokens' = mt
        /\ IF x.tag = "raise"
           THEN /\ result' = Raised
                /\ UNCHANGED <<description, clip_calls>>
           ELSE LET r == get_pr_description(x, f, mt)
                IN  /\ result' = r.ret
                    /\ description' = r.description
                    /\ clip_calls' = r.clip_calls
    /\ op' = "get_pr_description"
    /\ pc' = "done"
    /\ UNCHANGED <<langVars, constructed, defaulted>>

\* get_main_pr_language(l, f)
Call_get_main_pr_language ==
    /\ pc = "idle"
    /\ \E l \in LanguageInputs, f \in FileInputs :
        \E pick \in picks(l, f) :
            LET r == get_main_pr_language(l, f, pick)
            IN  /\ languages' = l
                /\ files' = f
                /\ result' = r.ret
                /\ top_language' = r.top_language
                /\ extension_list' = r.extension_list
                /\ most_common_extension' = r.most_common_extension
                /\ caught' = r.caught
                /\ constructed' = r.constructed
    /\ op' = "get_main_pr_language"
    /\ pc' = "done"
    /\ UNCHANGED <<descVars, defaulted>>

\* FilePatchInfo(...) with every field given, or with only the four required ones
Call_FilePatchInfo ==
    /\ pc = "idle"
    /\ \E b \in OptionalTexts, h \in OptionalTexts, p \in OptionalTexts,
          n \in OptionalNames :
        \/ /\ defaulted' = TRUE
           /\ constructed' = <<FilePatchInfoDefaults(b, h, p, n)>>
        \/ /\ defaulted' = FALSE
           /\ \E t \in TokenCounts, e \in EDIT_TYPE, o \in OptionalNames :
                constructed' = <<FilePatchInfo(b, h, p, n, t, e, o)>>
    /\ op' = "FilePatchInfo"
    /\ pc' = "done"
    /\ UNCHANGED <<result, descVars, langVars>>

\* the caller takes the outcome and is ready for the next call
Return ==
    /\ pc = "done"
    /\ pc' = "idle"
    /\ op' = "none"
    /\ result' = Unset
    /\ pr_description_full' = Unset
    /\ full' = TRUE
    /\ max_tokens' = NoTokens
    /\ description' = Unset
    /\ clip_calls' = <<>>
    /\ languages' = NoLanguages
    /\ files' = NoFiles
    /\ top_language' = Unset
    /\ extension_list' = <<>>
    /\ most_common_extension' = Unset
    /\ caught' = FALSE
    /\ constructed' = <<>>
    /\ defaulted' = FALSE

Next ==
    \/ Call_get_user_description
    \/ Call_get_pr_description
    \/ Call_get_main_pr_language
    \/ Call_FilePatchInfo
    \/ Return

Spec == Init /\ [][Next]_vars

-----------------------------------------------------------------------------
(* What the properties are stated with: text operations defined by what they  *)
(* mean, not by how the code computes them                                    *)

Returned(o) == pc = "done" /\ op = o

\* t without its leading and trailing whitespace
Trim(t) ==
    LET keep == {i \in DOMAIN t : t[i] \notin Whitespace}
    IN  IF keep = {} THEN <<>>
        ELSE SubSeq(t, CHOOSE i \in keep : \A j \in keep : i <= j,
                       CHOOSE i \in keep : \A j \in keep : j <= i)

OccursAt(t, m, i) ==
    /\ i >= 1
    /\ i + Len(m) - 1 <= Len(t)
    /\ \A k \in DOMAIN m : t[i + k - 1] = m[k]

Occurs(t, m) == \E i \in DOMAIN t : OccursAt(t, m, i)

Occurrences(t, m) == Cardinality({i \in DOMAIN t : OccursAt(t, m, i)})

\* the text of t that follows the first occurrence of m
AfterFirst(t, m) ==
    LET i == CHOOSE k \in DOMAIN t :
                 OccursAt(t, m, k) /\ \A j \in 1..(k - 1) : ~OccursAt(t, m, j)
    IN  SubSeq(t, i + Len(m), Len(t))

\* the raw description the provider returned
Raw == pr_description_full.val
Generated == OccursAt(Trim(Raw), PR_TYPE_MARKER, 1)

\* e is the text of name after its last '.'
IsExtension(e, name) ==
    \E i \in DOMAIN name :
        /\ name[i] = "."
        /\ e = SubSeq(name, i + 1, Len(name))
        /\ \A k \in DOMAIN e : e[k] # "."

\* the table as the specification lists it: language by extension
ListedExtensions ==
    {<<"p", "y">>, <<"j", "s">>, <<"t", "s">>, <<"g", "o">>, <<"j", "a", "v", "a">>,
     <<"c">>, <<"c", "p", "p">>, <<"c", "s">>, <<"s", "w", "i", "f", "t">>,
     <<"p", "h", "p">>, <<"r", "b">>, <<"r", "s">>, <<"s", "c", "a", "l", "a">>,
     <<"k", "t">>, <<"p", "l">>}

ListedLanguage(e) ==
    CASE e = <<"p", "y">> -> <<"p", "y", "t", "h", "o", "n">>
      [] e = <<"j", "s">> -> <<"j", "a", "v", "a", "s", "c", "r", "i", "p", "t">>
      [] e = <<"t", "s">> -> <<"t", "y", "p", "e", "s", "c", "r", "i", "p", "t">>
      [] e = <<"c", "p", "p">> -> <<"c", "+", "+">>
      [] e = <<"c", "s">> -> <<"c", "#">>
      [] e = <<"r", "b">> -> <<"r", "u", "b", "y">>
      [] e = <<"r", "s">> -> <<"r", "u", "s", "t">>
      [] e = <<"k", "t">> -> <<"k", "o", "t", "l", "i", "n">>
      [] e = <<"p", "l">> -> <<"p", "e", "r", "l">>
      [] OTHER -> e

Paired(e, lang) == e \in ListedExtensions /\ ListedLanguage(e) = lang

\* the lower-cased keys of maximum weight (several when weights tie)
Comparable == \A i \in DOMAIN languages.items : languages.items[i].weight.cmp

TopLanguages ==
    {lower(languages.items[i].key) : i \in
        {k \in DOMAIN languages.items :
            \A j \in DOMAIN languages.items :
                languages.items[j].weight.n <= languages.items[k].weight.n}}

NonEmptyInputs ==
    /\ languages.tag = "dict" /\ Len(languages.items) > 0
    /\ files.tag = "list" /\ Len(files.items) > 0

HasFilename(e) == e.kind # "other" /\ e.filename.tag = "str"

\* the inputs on which something fails inside the computation
Malformed ==
    \/ Len(languages.items) >= 2 /\ ~Comparable
    \/ \E i \in DOMAIN files.items : ~HasFilename(files.items[i])

\* how often e is the text after the last '.' (or, without a '.', the whole
\* name) of a file
Uses(e) ==
    Cardinality({i \in DOMAIN files.items :
        LET n == files.items[i].filename.val
        IN  IsExtension(e, n) \/ (e = n /\ \A k \in DOMAIN n : n[k] # ".")})

WellFormed(f) ==
    /\ f.filename.tag = "str"
    /\ (f.old_filename.tag = "str" <=> f.edit_type = "RENAMED")

-----------------------------------------------------------------------------
(* Properties *)

\* C1: a raw description whose trimmed form does not start with "## PR Type" is
\* returned by get_user_description trimmed and otherwise unchanged, even when
\* it contains "## User Description:".
C1_NotGeneratedReturnedTrimmed ==
    (Returned("get_user_description") /\ pr_description_full.tag = "str" /\ ~Generated)
        => result = Str(Trim(Raw))

C1_Witness ==
    /\ Returned("get_user_description") /\ pr_description_full.tag = "str"
    /\ ~Generated
    /\ Occurs(Raw, USER_DESCRIPTION_HEADER)
    /\ Trim(Raw) # Raw
    /\ result = Str(Trim(Raw))

\* C2: for a raw description whose trimmed form starts with "## PR Type" and
\* that contains "## User Description:", get_user_description returns the
\* trimmed text after the first occurrence of that header.
C2_TextAfterFirstHeader ==
    (Returned("get_user_description") /\ pr_description_full.tag = "str" /\ Generated
        /\ Occurs(Raw, USER_DESCRIPTION_HEADER))
        => result = Str(Trim(AfterFirst(Raw, USER_DESCRIPTION_HEADER)))

C2_Witness ==
    /\ Returned("get_user_description") /\ pr_description_full.tag = "str"
    /\ Generated
    /\ Occurrences(Raw, USER_DESCRIPTION_HEADER) = 2
    /\ result.tag = "str"
    /\ Occurs(result.val, USER_DESCRIPTION_HEADER)
    /\ result.val # AfterFirst(Raw, USER_DESCRIPTION_HEADER)

\* C3: for a raw description whose trimmed form starts with "## PR Type" and
\* that contains no "## User Description:", get_user_description returns "".
C3_GeneratedWithoutUserSection ==
    (Returned("get_user_description") /\ pr_description_full.tag = "str" /\ Generated
        /\ ~Occurs(Raw, USER_DESCRIPTION_HEADER))
        => result = Str(<<>>)

C3_Witness ==
    /\ Returned("get_user_description") /\ pr_description_full.tag = "str"
    /\ Generated
    /\ ~Occurs(Raw, USER_DESCRIPTION_HEADER)
    /\ Len(Trim(Raw)) > Len(PR_TYPE_MARKER)
    /\ result = Str(<<>>)

\* C4: when languages and files are not empty and the text after the last '.'
\* of every file name is the extension the table pairs with the top language,
\* get_main_pr_language returns the top language, a lower-cased key of maximum
\* weight.
C4_AllFilesOfTopLanguage ==
    (Returned("get_main_pr_language") /\ NonEmptyInputs /\ top_language.tag = "str"
        /\ \A i \in DOMAIN files.items :
              /\ HasFilename(files.items[i])
              /\ \E e \in ListedExtensions :
                    /\ IsExtension(e, files.items[i].filename.val)
                    /\ Paired(e, top_language.val))
        => /\ result = Str(top_language.val)
           /\ top_language.val \in TopLanguages

C4_Witness ==
    /\ Returned("get_main_pr_language")
    /\ Len(languages.items) = 2
    /\ Len(files.items) >= 2
    /\ \E i, j \in DOMAIN files.items :
          files.items[i].kind = "str" /\ files.items[j].kind = "obj"
    /\ \A i \in DOMAIN files.items :
          /\ HasFilename(files.items[i])
          /\ IsExtension(<<"p", "y">>, files.items[i].filename.val)
    /\ result = Str(<<"p", "y", "t", "h", "o", "n">>)

\* C5: get_main_pr_language returns "" or the top language, a lower-cased key of
\* maximum weight, and the top language only when the most common extension
\* is paired with it in the table or equals it.
C5_TopLanguageOnlyOnMatch ==
    Returned("get_main_pr_language")
        => /\ result.tag = "str"
           /\ result.val # <<>>
                => /\ top_language = result
                   /\ result.val \in TopLanguages
                   /\ most_common_extension.tag = "str"
                   /\ \A e \in Range(extension_list) :
                         Uses(e) <= Uses(most_common_extension.val)
                   /\ Uses(most_common_extension.val) > 0
                   /\ \/ Paired(most_common_extension.val, result.val)
                      \/ most_common_extension.val = result.val

C5_Witness ==
    /\ Returned("get_main_pr_language")
    /\ NonEmptyInputs /\ ~Malformed
    /\ top_language = Str(<<"p", "y", "t", "h", "o", "n">>)
    /\ most_common_extension = Str(<<"r">>)
    /\ result = Str(<<>>)

\* C6: with languages empty or absent, or files empty or absent,
\* get_main_pr_language returns "" and has computed no top language and no
\* extension.
C6_EmptyInputsReturnEarly ==
    (Returned("get_main_pr_language")
        /\ (languages.tag = "none" \/ Len(languages.items) = 0
            \/ files.tag = "none" \/ Len(files.items) = 0))
        => /\ result = Str(<<>>)
           /\ top_language = Unset
           /\ extension_list = <<>>
           /\ most_common_extension = Unset
           /\ ~caught
           /\ constructed = <<>>

C6_Witness ==
    /\ Returned("get_main_pr_language")
    /\ languages.tag = "dict" /\ Len(languages.items) = 2
    /\ files.tag = "list" /\ files.items = <<>>
    /\ result = Str(<<>>)

\* C7: get_main_pr_language always ends with a str, never with an exception,
\* and with "" whenever something failed inside the computation.
C7_NeverRaises ==
    Returned("get_main_pr_language")
        => /\ result.tag = "str"
           /\ (NonEmptyInputs /\ Malformed) => (caught /\ result = Str(<<>>))
           /\ caught => result = Str(<<>>)

C7_Witness ==
    /\ Returned("get_main_pr_language")
    /\ NonEmptyInputs
    /\ Len(files.items) = 2
    /\ files.items[1] = Entry("str", Str(<<"a", ".", "p", "y">>))
    /\ ~HasFilename(files.items[2])
    /\ top_language = Str(<<"p", "y", "t", "h", "o", "n">>)
    /\ caught
    /\ result = Str(<<>>)

\* what get_pr_description has before any clipping: the full description, or
\* the user description
Unclipped ==
    IF full THEN pr_description_full ELSE Str(get_user_description(pr_description_full))

\* C8 as stated: whenever CONFIG.MAX_DESCRIPTION_TOKENS is set, the description
\* get_pr_description returns has been passed through clip_tokens, and
\* otherwise it is returned unchanged.
C8_ClippedWheneverSet ==
    (Returned("get_pr_description") /\ pr_description_full.tag # "raise")
        => /\ description = Unclipped
           /\ max_tokens.set
                => /\ clip_calls = <<[text |-> Unclipped, n |-> max_tokens.n]>>
                   /\ result = clip_tokens(Unclipped, max_tokens.n)
           /\ ~max_tokens.set => (clip_calls = <<>> /\ result = Unclipped)

\* C8, amended: get_pr_description returns the full description when full is
\* true and the user description when it is false, passed through clip_tokens
\* when CONFIG.MAX_DESCRIPTION_TOKENS is set and not 0, and unchanged when it
\* is not set or is 0.
C8_ClippedWhenBudgetNonZero ==
    (Returned("get_pr_description") /\ pr_description_full.tag # "raise")
        => /\ description = Unclipped
           /\ (max_tokens.set /\ max_tokens.n # 0)
                => /\ clip_calls = <<[text |-> Unclipped, n |-> max_tokens.n]>>
                   /\ result = clip_tokens(Unclipped, max_tokens.n)
           /\ (~max_tokens.set \/ max_tokens.n = 0)
                => (clip_calls = <<>> /\ result = Unclipped)

C8_Witness ==
    /\ Returned("get_pr_description")
    /\ ~full
    /\ max_tokens = [set |-> TRUE, n |-> 0]
    /\ clip_calls = <<>>
    /\ result = Unclipped
    /\ result.val # <<>>
    /\ result.val # Raw

\* C9 as stated: get_user_description and get_pr_description never end with an
\* exception, and give a str when get_pr_description_full fails or returns
\* nothing.
C9_HelpersNeverRaise ==
    (Returned("get_user_description") \/ Returned("get_pr_description"))
        => /\ result.tag # "raise"
           /\ pr_description_full.tag \in {"raise", "none"} => result.tag = "str"

\* C9, amended: an absent description becomes "" in get_user_description and in
\* get_pr_description(full=False), and stays absent in get_pr_description(full=True)
\* when nothing is clipped; an exception of get_pr_description_full propagates
\* out of both helpers.
C9_AbsentDegradesErrorPropagates ==
    /\ (Returned("get_user_description") /\ pr_description_full = None)
          => result = Str(<<>>)
    /\ (Returned("get_pr_description") /\ pr_description_full = None /\ ~full)
          => description = Str(<<>>)
    /\ (Returned("get_pr_description") /\ pr_description_full = None /\ full
          /\ clip_calls = <<>>)
          => result = None
    /\ ((Returned("get_user_description") \/ Returned("get_pr_description"))
          /\ pr_description_full = Raised)
          => (result = Raised /\ clip_calls = <<>>)
    /\ ((Returned("get_user_description") \/ Returned("get_pr_description"))
          /\ pr_description_full.tag = "str")
          => result.tag = "str"

C9_Witness ==
    /\ Returned("get_user_description")
    /\ pr_description_full = Raised
    /\ result = Raised

====
